---- MODULE Spec2Model ----
(***************************************************************************)
(* Model of degirum_tools.line_count.LineCounter (line crossing counter)   *)
(* and of the geometry helpers it uses from degirum_tools.math_support.    *)
(*                                                                         *)
(* Coordinates.  Lines and pointer positions are integer pixels.  An       *)
(* anchor point of a bounding box may be a half-integer, (x0 + x1) / 2, so *)
(* anchor points, and the trail vectors built from them, are held in       *)
(* half-pixel units (twice the pixel value); a line is brought to the same *)
(* unit where the code combines it with a trail.  Every decision of the    *)
(* code on these numbers is a sign test, which the common factor keeps.    *)
(***************************************************************************)
EXTENDS Integers, Sequences, FiniteSets, TLC

\* the coordinates of the points and boxes the math_support functions are
\* called with run from 0 to GridMax
GridMax == 2

(***************************************************************************)
(* Bounds of the model.                                                    *)
(***************************************************************************)
\* longest trail (number of boxes) a result carries for one identity
MaxTrailLen == 2
\* cap of every counter: analyze is not taken past it
MaxCount == 2
\* the distance, in pixels, below which a press hits a line or an end
ThresholdPx == 10

(***************************************************************************)
(* math_support: signs, vectors, anchor points, segment intersection.      *)
(***************************************************************************)
\* F applied to the value of e, which is computed once
Let(e, F(_)) == CHOOSE y \in {F(v) : v \in {e}} : TRUE

\* numpy.sign of an integer
Sign(x) == IF x > 0 THEN 1 ELSE IF x < 0 THEN -1 ELSE 0

\* as Cross, with the operands exchanged
CrossReversed(u, v) == v[1] * u[2] - v[2] * u[1]

\* numpy.cross of two 2D vectors
Cross(u, v) == u[1] * v[2] - u[2] * v[1]

AnchorPoints ==
  {"CENTER", "CENTER_LEFT", "CENTER_RIGHT", "TOP_CENTER", "TOP_LEFT",
   "TOP_RIGHT", "BOTTOM_LEFT", "BOTTOM_CENTER", "BOTTOM_RIGHT"}

\* as GetAnchorCoordinates, with the center of the box for every anchor
GetAnchorCoordinatesCenter(xyxy, anchor) ==
  <<xyxy[1] + xyxy[3], xyxy[2] + xyxy[4]>>

\* get_anchor_coordinates for one box <<x0, y0, x1, y1>>, in half-pixel
\* units; "ValueError" for an anchor that is none of the nine
GetAnchorCoordinates(xyxy, anchor) ==
  CASE anchor = "CENTER"        -> <<xyxy[1] + xyxy[3], xyxy[2] + xyxy[4]>>
    [] anchor = "CENTER_LEFT"   -> <<2 * xyxy[1], xyxy[2] + xyxy[4]>>
    [] anchor = "CENTER_RIGHT"  -> <<2 * xyxy[3], xyxy[2] + xyxy[4]>>
    [] anchor = "BOTTOM_CENTER" -> <<xyxy[1] + xyxy[3], 2 * xyxy[4]>>
    [] anchor = "BOTTOM_LEFT"   -> <<2 * xyxy[1], 2 * xyxy[4]>>
    [] anchor = "BOTTOM_RIGHT"  -> <<2 * xyxy[3], 2 * xyxy[4]>>
    [] anchor = "TOP_CENTER"    -> <<xyxy[1] + xyxy[3], 2 * xyxy[2]>>
    [] anchor = "TOP_LEFT"      -> <<2 * xyxy[1], 2 * xyxy[2]>>
    [] anchor = "TOP_RIGHT"     -> <<2 * xyxy[3], 2 * xyxy[2]>>
    [] OTHER                    -> "ValueError"

\* as Intersect, with a zero signed area never taken as a match
IntersectStrict(a, b, c, d) ==
  LET s1 == (a[1] - b[1]) * (c[2] - a[2]) - (a[2] - b[2]) * (c[1] - a[1])
      t1 == (a[1] - b[1]) * (d[2] - a[2]) - (a[2] - b[2]) * (d[1] - a[1])
      s2 == (c[1] - d[1]) * (a[2] - c[2]) - (c[2] - d[2]) * (a[1] - c[1])
      t2 == (c[1] - d[1]) * (b[2] - c[2]) - (c[2] - d[2]) * (b[1] - c[1])
  IN  IF s1 * t1 > 0 THEN FALSE
      ELSE IF s2 * t2 > 0 THEN FALSE
      ELSE TRUE

\* as Intersect, with no hit for a segment that starts on the line
IntersectOpenStart(a, b, c, d) ==
  LET s1 == (a[1] - b[1]) * (c[2] - a[2]) - (a[2] - b[2]) * (c[1] - a[1])
      t1 == (a[1] - b[1]) * (d[2] - a[2]) - (a[2] - b[2]) * (d[1] - a[1])
      s2 == (c[1] - d[1]) * (a[2] - c[2]) - (c[2] - d[2]) * (a[1] - c[1])
      t2 == (c[1] - d[1]) * (b[2] - c[2]) - (c[2] - d[2]) * (b[1] - c[1])
  IN  IF s1 = 0 \/ s1 * t1 > 0 THEN FALSE
      ELSE IF s2 * t2 > 0 THEN FALSE
      ELSE TRUE

\* as Intersect, by the overlap of the bounding boxes of the two segments
IntersectBoxes(a, b, c, d) ==
  LET Min(x, y) == IF x < y THEN x ELSE y
      Max(x, y) == IF x < y THEN y ELSE x
  IN  \A k \in 1..2 : /\ Min(a[k], b[k]) <= Max(c[k], d[k])
                       /\ Min(c[k], d[k]) <= Max(a[k], b[k])

\* as Intersect, with a zero signed area taken as a match of any other
IntersectZeroMatches(a, b, c, d) ==
  LET s1 == (a[1] - b[1]) * (c[2] - a[2]) - (a[2] - b[2]) * (c[1] - a[1])
      t1 == (a[1] - b[1]) * (d[2] - a[2]) - (a[2] - b[2]) * (d[1] - a[1])
      s2 == (c[1] - d[1]) * (a[2] - c[2]) - (c[2] - d[2]) * (a[1] - c[1])
      t2 == (c[1] - d[1]) * (b[2] - c[2]) - (c[2] - d[2]) * (b[1] - c[1])
  IN  IF s1 * t1 >= 0 THEN FALSE
      ELSE IF s2 * t2 >= 0 THEN FALSE
      ELSE TRUE

\* intersect(a, b, c, d): the two-sided sign test
Intersect(a, b, c, d) ==
  LET s1 == (a[1] - b[1]) * (c[2] - a[2]) - (a[2] - b[2]) * (c[1] - a[1])
      t1 == (a[1] - b[1]) * (d[2] - a[2]) - (a[2] - b[2]) * (d[1] - a[1])
      s2 == (c[1] - d[1]) * (a[2] - c[2]) - (c[2] - d[2]) * (a[1] - c[1])
      t2 == (c[1] - d[1]) * (b[2] - c[2]) - (c[2] - d[2]) * (b[1] - c[1])
  IN  IF Sign(s1) = Sign(t1) THEN FALSE
      ELSE IF Sign(s2) = Sign(t2) THEN FALSE
      ELSE TRUE

\* LineCounter._line_to_vector
LineToVector(line) == <<line[3] - line[1], line[4] - line[2]>>

\* a pixel point or line in half-pixel units
Half(p) == [k \in DOMAIN p |-> 2 * p[k]]

(***************************************************************************)
(* Inputs of the model: identities, boxes, class labels, lines.            *)
(***************************************************************************)
Tids == {1, 2}

\* boxes <<x0, y0, x1, y1>>; their bottom-center anchors are (50,0), above
\* the first line, and (50,100), below it
BoxU == <<40, 0, 60, 0>>
BoxD == <<40, 80, 60, 100>>
Boxes == {BoxU, BoxD}

\* a box whose bottom-center anchor (50,50) is on the first line, and the
\* boxes of a trail that passes through it
BoxM == <<40, 30, 60, 50>>
BoxesOn == {BoxU, BoxM, BoxD}

Labels == {"car", "person"}

\* the lines given to the constructor
Lines0 == << <<0, 50, 100, 50>>, <<40, 0, 40, 100>> >>

NoMap == [x \in {} |-> 0]

Bool == {TRUE, FALSE}

\* constructor options; anchor_point and whole_trail keep their defaults.
\* lines_type is the type of the elements of the lines argument: tuples, of
\* which a slice is a copy, or numpy arrays, of which a slice is a view
ConfigsOver(whole) ==
  [whole_trail : whole, count_first_crossing : Bool,
   absolute_directions : Bool, accumulate : Bool,
   per_class_display : Bool, anchor_point : {"BOTTOM_CENTER"},
   lines_type : {"tuple", "ndarray"}]

Configs == ConfigsOver({TRUE})

\* trails: one to MaxTrailLen boxes, oldest first
Trails(boxes) == UNION {[1..n -> boxes] : n \in 1..MaxTrailLen}

\* trails of up to one box more
LongTrails(boxes) == UNION {[1..n -> boxes] : n \in 1..MaxTrailLen + 1}

\* the trails attribute of a result: a dictionary (maybe empty)
TrailDicts(tids, boxes) == UNION {[K -> Trails(boxes)] : K \in SUBSET tids}

\* the trail_classes attribute of a result with the given keys, the labels
\* taken from the given ones
ClassDictsOver(K, labels) == UNION {[J -> labels] : J \in SUBSET K}

\* the trail_classes attribute of a result with the given keys
ClassDicts(K) == ClassDictsOver(K, Labels)

VARIABLES
  cfg,                    \* constructor options
  _lines,                 \* self._lines
  _line_vectors,          \* self._line_vectors
  _counted_trails_list,   \* self._counted_trails_list
  _line_counts,           \* self._line_counts
  result,                 \* the result of the last analyze call
  raised,                 \* the exception the last call ended with
  op,                     \* the last operation
  credited,               \* per line: identities added to the total record
                          \* by the last analyze call
  hist,                   \* per line and identity: credit history
  kept,                   \* count records of an earlier result that the
                          \* consumer still holds
  _win_name,              \* self._win_name
  _mouse_callback_installed,
  _gui_state,             \* self._gui_state
  args,                   \* the arguments of a call of a math_support function,
                          \* or the pointer position of the last mouse event
  ret                     \* what that call returned or raised

engine == <<_counted_trails_list, _line_counts>>
geometry == <<_lines, _line_vectors>>
gui == <<_win_name, _mouse_callback_installed, _gui_state>>
call == <<args, ret>>
vars == <<cfg, _lines, _line_vectors, _counted_trails_list, _line_counts,
          result, raised, op, credited, hist, kept,
          _win_name, _mouse_callback_installed, _gui_state, args, ret>>

NLines == Len(_lines)

(***************************************************************************)
(* Count records.                                                          *)
(***************************************************************************)
\* SingleLineCounts() or SingleVectorCounts(): self._count_type.__bases__[0]()
ZeroSingle ==
  IF cfg.absolute_directions
  THEN [left |-> 0, right |-> 0, top |-> 0, bottom |-> 0]
  ELSE [in_direction |-> 0, out_direction |-> 0]

\* LineCounts() or VectorCounts(): self._count_type()
ZeroCounts ==
  IF cfg.absolute_directions
  THEN [left |-> 0, right |-> 0, top |-> 0, bottom |-> 0, for_class |-> NoMap]
  ELSE [in_direction |-> 0, out_direction |-> 0, for_class |-> NoMap]

Buckets == DOMAIN ZeroSingle

\* as CountIncrement, with a zero component counted as left or top
CountIncrementZeroFirst(trail_vector, line_vector) ==
  [left   |-> IF trail_vector[1] <= 0 THEN 1 ELSE 0,
   right  |-> IF trail_vector[1] <= 0 THEN 0 ELSE 1,
   top    |-> IF trail_vector[2] <= 0 THEN 1 ELSE 0,
   bottom |-> IF trail_vector[2] <= 0 THEN 0 ELSE 1]

\* as IAdd, with the increment assigned instead of added
IAddAssign(total, inc) ==
  [f \in DOMAIN total |-> IF f \in DOMAIN inc THEN inc[f] ELSE total[f]]

\* SingleLineCounts.__iadd__ / SingleVectorCounts.__iadd__
IAdd(total, inc) ==
  [f \in DOMAIN total |-> IF f \in DOMAIN inc THEN total[f] + inc[f] ELSE total[f]]

\* count_increment of analyze; "ValueError" where the truth value of the
\* comparison of the two sign arrays is taken
CountIncrement(trail_vector, line_vector) ==
  IF cfg.absolute_directions
  THEN [left   |-> IF trail_vector[1] < 0 THEN 1 ELSE 0,
        right  |-> IF trail_vector[1] < 0 THEN 0 ELSE 1,
        top    |-> IF trail_vector[2] < 0 THEN 1 ELSE 0,
        bottom |-> IF trail_vector[2] < 0 THEN 0 ELSE 1]
  ELSE LET cross_product == Cross(trail_vector, line_vector)
       IN  IF cross_product > 0 THEN [in_direction |-> 0, out_direction |-> 1]
           ELSE IF cross_product < 0 THEN [in_direction |-> 1, out_direction |-> 0]
           ELSE [error |-> "ValueError"]

(***************************************************************************)
(* LineCounter.analyze.                                                    *)
(***************************************************************************)
Pt1(line) == <<line[1], line[2]>>
Pt2(line) == <<line[3], line[4]>>

\* the anchor points of a trail: get_anchor_coordinates on its boxes
AnchorTrail(boxes) ==
  [k \in 1..Len(boxes) |-> GetAnchorCoordinates(boxes[k], cfg.anchor_point)]

\* as TestedSegment, from the first point whatever whole_trail is
TestedSegmentWhole(trail) ==
  IF Len(trail) > 1 THEN <<trail[1], trail[Len(trail)]>> ELSE << >>

\* trail_start and trail_end of a trail of anchor points; << >> for a trail
\* of fewer than two points
TestedSegment(trail) ==
  IF Len(trail) > 1
  THEN <<IF cfg.whole_trail THEN trail[1] ELSE trail[Len(trail) - 1],
         trail[Len(trail)]>>
  ELSE << >>

\* as ClassAdd, with the map made anew for the label
ClassAddAlone(for_class, label, increment) ==
  [l \in {label} |-> IAdd(ZeroSingle, increment)]

\* total_count.for_class.setdefault(label, zero) += increment
ClassAdd(for_class, label, increment) ==
  [l \in DOMAIN for_class \cup {label} |->
     IF l = label
     THEN IAdd(IF l \in DOMAIN for_class THEN for_class[l] ELSE ZeroSingle,
               increment)
     ELSE for_class[l]]

\* as Credit, with an identity without class label counted in the total
\* record only and no exception
CreditUnlabelled(st, i, tid, r, increment) ==
  IF "error" \in DOMAIN increment
  THEN [st EXCEPT !.raised = increment.error]
  ELSE [st EXCEPT !.counted[i] = IF cfg.count_first_crossing
                                 THEN @ \cup {tid} ELSE @,
                  !.counts[i] = IF cfg.per_class_display
                                   /\ tid \in DOMAIN r.trail_classes
                                THEN [IAdd(@, increment) EXCEPT !.for_class =
                                        ClassAdd(@, r.trail_classes[tid], increment)]
                                ELSE IAdd(@, increment),
                  !.credited[i] = @ \cup {tid}]

\* as Credit, with the record of the line left alone when the label is
\* missing
CreditLabelFirst(st, i, tid, r, increment) ==
  IF "error" \in DOMAIN increment
  THEN [st EXCEPT !.counted[i] = IF cfg.count_first_crossing
                                 THEN @ \cup {tid} ELSE @,
                  !.raised = increment.error]
  ELSE IF cfg.per_class_display /\ tid \notin DOMAIN r.trail_classes
  THEN [st EXCEPT !.raised = "KeyError"]
  ELSE [st EXCEPT !.counted[i] = IF cfg.count_first_crossing
                                 THEN @ \cup {tid} ELSE @,
                  !.counts[i] = IF cfg.per_class_display
                                THEN [IAdd(@, increment) EXCEPT !.for_class =
                                        ClassAdd(@, r.trail_classes[tid], increment)]
                                ELSE IAdd(@, increment),
                  !.credited[i] = @ \cup {tid}]

\* the body of the loop over the candidates of line i, for identity tid,
\* once its tested segment crosses the line (lines 248-257); st holds the
\* counted-trail sets, the count records, the identities credited so far and
\* the exception raised, if any
Credit(st, i, tid, r, increment) ==
  IF "error" \in DOMAIN increment
  THEN [st EXCEPT !.counted[i] = IF cfg.count_first_crossing
                                 THEN @ \cup {tid} ELSE @,
                  !.raised = increment.error]
  ELSE IF cfg.per_class_display /\ tid \notin DOMAIN r.trail_classes
  THEN [st EXCEPT !.counted[i] = IF cfg.count_first_crossing
                                 THEN @ \cup {tid} ELSE @,
                  !.counts[i] = IAdd(@, increment),
                  !.credited[i] = @ \cup {tid},
                  !.raised = "KeyError"]
  ELSE [st EXCEPT !.counted[i] = IF cfg.count_first_crossing
                                 THEN @ \cup {tid} ELSE @,
                  !.counts[i] = IF cfg.per_class_display
                                THEN [IAdd(@, increment) EXCEPT !.for_class =
                                        ClassAdd(@, r.trail_classes[tid], increment)]
                                ELSE IAdd(@, increment),
                  !.credited[i] = @ \cup {tid}]

\* the body of the loop over the candidates of line i, for identity tid
\* (lines 238-257)
Visit(st, i, tid, r) ==
  Let(TestedSegment(AnchorTrail(r.trails[tid])), LAMBDA seg :
    IF seg = << >> THEN st
    ELSE IF ~Let(<<Half(Pt1(_lines[i])), Half(Pt2(_lines[i]))>>, LAMBDA l :
               Intersect(l[1], l[2], seg[1], seg[2]))
    THEN st
    ELSE Let(CountIncrement(LineToVector(seg[1] \o seg[2]), _line_vectors[i]),
             LAMBDA increment : Credit(st, i, tid, r, increment)))

\* as TidLoop, left after the first identity
TidLoopFirstOnly(st, i, order, new_trails, r) ==
  IF order = << >> \/ st.raised # "none" \/ Head(order) \notin new_trails
  THEN st
  ELSE Visit(st, i, Head(order), r)

\* for tid in new_trails, in the iteration order given, until an exception
RECURSIVE TidLoop(_, _, _, _, _)
TidLoop(st, i, order, new_trails, r) ==
  IF order = << >> \/ st.raised # "none" THEN st
  ELSE Let(IF Head(order) \in new_trails THEN Visit(st, i, Head(order), r)
           ELSE st,
           LAMBDA st1 : TidLoop(st1, i, Tail(order), new_trails, r))

\* for ... in zip(new_trails_list, ...), from line i on
RECURSIVE LineLoop(_, _, _, _, _)
LineLoop(st, i, order, new_trails_list, r) ==
  IF i > NLines \/ st.raised # "none" THEN st
  ELSE Let(TidLoop(st, i, order, new_trails_list[i], r),
           LAMBDA st1 : LineLoop(st1, i + 1, order, new_trails_list, r))

\* as Pruned, with no identity ever removed
PrunedNever(new_trails) == _counted_trails_list

\* as Pruned, with identity 1 never removed
PrunedButOne(new_trails) ==
  IF cfg.count_first_crossing
  THEN [i \in 1..NLines |-> _counted_trails_list[i] \cap (new_trails \cup {1})]
  ELSE _counted_trails_list

\* self._counted_trails_list after lines 193-198
Pruned(new_trails) ==
  IF cfg.count_first_crossing
  THEN [i \in 1..NLines |-> _counted_trails_list[i] \cap new_trails]
  ELSE _counted_trails_list

\* as Candidates, with the identities already counted left in
CandidatesUnfiltered(new_trails, counted) == [i \in 1..NLines |-> new_trails]

\* as Candidates, without the identities counted on any line
CandidatesAnyLine(new_trails, counted) ==
  IF cfg.count_first_crossing
  THEN [i \in 1..NLines |->
          new_trails \ UNION {counted[j] : j \in 1..NLines}]
  ELSE [i \in 1..NLines |-> new_trails]

\* as Candidates, without the identities the previous call credited
CandidatesFresh(new_trails, counted) ==
  [i \in 1..NLines |-> new_trails \ (counted[i] \cup credited[i])]

\* new_trails_list after lines 191-200, given the pruned counted-trail sets
Candidates(new_trails, counted) ==
  IF cfg.count_first_crossing
  THEN [i \in 1..NLines |-> new_trails \ counted[i]]
  ELSE [i \in 1..NLines |-> new_trails]

\* as StartCounts, with the records never replaced
StartCountsKept == _line_counts

\* self._line_counts when the loop starts (lines 227-228)
StartCounts ==
  IF ~cfg.accumulate THEN [i \in 1..NLines |-> ZeroCounts] ELSE _line_counts

\* the state of the engine when analyze returns or raises
Analyzed(r, order) ==
  Let(Pruned(DOMAIN r.trails), LAMBDA counted :
    Let(Candidates(DOMAIN r.trails, counted), LAMBDA new_trails_list :
      LineLoop([counted |-> counted, counts |-> StartCounts,
                credited |-> [i \in 1..NLines |-> {}], raised |-> "none"],
               1, order, new_trails_list, r)))

\* the results analyze is called with: the trails attribute is absent, or a
\* dictionary; trail_classes is read only with per_class_display
Results(tids, boxes) ==
  {[has_trails |-> FALSE, trails |-> NoMap, trail_classes |-> NoMap]} \cup
  UNION {{[has_trails |-> TRUE, trails |-> td, trail_classes |-> cd] :
            cd \in IF cfg.per_class_display THEN ClassDicts(DOMAIN td)
                   ELSE {NoMap}} :
         td \in TrailDicts(tids, boxes)}

\* the results with trails whose class labels, where present, are "car"
ResultsOneLabel(tids, boxes) ==
  UNION {{[has_trails |-> TRUE, trails |-> td, trail_classes |-> cd] :
            cd \in ClassDictsOver(DOMAIN td, {"car"})} :
         td \in TrailDicts(tids, boxes)}

\* the results without class labels whose trails have up to one box more
ResultsLong(tids, boxes) ==
  {[has_trails |-> FALSE, trails |-> NoMap, trail_classes |-> NoMap]} \cup
  {[has_trails |-> TRUE, trails |-> td, trail_classes |-> NoMap] :
     td \in UNION {[K -> LongTrails(boxes)] : K \in SUBSET tids}}

\* the orders in which the identities of a set may be iterated
Orders(K) ==
  {o \in [1..Cardinality(K) -> K] : \A a, b \in DOMAIN o : a # b => o[a] # o[b]}

IsCounted(single) == \E f \in Buckets : single[f] > 0

\* as DeepCopy, with only the records of the lines that have counts
DeepCopyCounted(counts) ==
  [line_counts |-> SelectSeq(counts, IsCounted), shared |-> FALSE]

\* the engine's own records, not copied
NoCopy(counts) == [line_counts |-> counts, shared |-> TRUE]

\* deepcopy(self._line_counts): records that share nothing with the engine's
DeepCopy(counts) == [line_counts |-> counts, shared |-> FALSE]

NoSnapshot == [line_counts |-> << >>, shared |-> FALSE]

\* as HasNoTrails, without the test for an empty dictionary
HasNoTrailsAttr(r) == ~r.has_trails

\* line 188: not hasattr(result, "trails") or len(result.trails) == 0
HasNoTrails(r) == ~r.has_trails \/ DOMAIN r.trails = {}

\* the credit history of identity t on line i after a frame, kept with
\* count_first_crossing:
\*   "never"    not credited since construction or reset
\*   "live"     credited, and in the trails of every frame processed since
\*   "again"    as "live", credited after having been "expired"
\*   "idle"     credited, then missing only from frames without trails
\*   "expired"  credited, then missing from a frame with trails
HistAfter(h, no_trails, present, is_credited) ==
  IF ~cfg.count_first_crossing THEN h
  ELSE IF no_trails THEN (IF h \in {"live", "again"} THEN "idle" ELSE h)
  ELSE IF ~present THEN (IF h = "never" THEN "never" ELSE "expired")
  ELSE IF is_credited THEN (IF h = "expired" THEN "again" ELSE "live")
  ELSE h

AllWithin(counts) ==
  \A i \in DOMAIN counts : \A f \in Buckets : counts[i][f] <= MaxCount

\* self._gui_state["dragging"]: None, a line (kind "line"), or one end of a
\* line (kind "point", end 1 or 2); attached tells whether it is the line's
\* own storage (a numpy view) or a value of its own
NoDrag == [kind |-> "none", idx |-> 0, end |-> 0, attached |-> FALSE]

\* _lazy_init: the mouse callback is installed when a window name is set;
\* cv2.setMouseCallback fails when no such window exists and the failure is
\* ignored
LazyInit(window_exists) ==
  IF ~_mouse_callback_installed /\ _win_name # "None" /\ window_exists
  THEN /\ _gui_state' = [exists |-> TRUE, dragging |-> NoDrag,
                         offset |-> << >>, update |-> -1]
       /\ _mouse_callback_installed' = TRUE
       /\ UNCHANGED _win_name
  ELSE UNCHANGED gui

\* analyze(result)
Analyze(r, order, window_exists) ==
  \E st \in {Analyzed(r, order)} :
  LET none == HasNoTrails(r)
      keys == DOMAIN r.trails
      snap == IF ~none /\ st.raised = "none" THEN DeepCopy(st.counts)
              ELSE NoSnapshot
  IN  /\ LazyInit(window_exists)
      /\ op' = "analyze"
      /\ IF none
         THEN /\ UNCHANGED engine
              /\ raised' = "none"
              /\ credited' = [i \in 1..NLines |-> {}]
              /\ UNCHANGED kept
         ELSE /\ AllWithin(st.counts)
              /\ _counted_trails_list' = st.counted
              /\ _line_counts' = st.counts
              /\ raised' = st.raised
              /\ credited' = st.credited
              \* records shared with the engine follow its in-place additions
              /\ kept' = IF kept.shared /\ cfg.accumulate
                         THEN [kept EXCEPT !.line_counts = st.counts]
                         ELSE [kept EXCEPT !.shared = FALSE]
      /\ result' = [has_trails |-> r.has_trails,
                    keys |-> keys,
                    tested |-> [t \in keys |-> TestedSegment(AnchorTrail(r.trails[t]))],
                    trail_classes |-> r.trail_classes,
                    has_line_counts |-> ~none /\ st.raised = "none",
                    line_counts |-> snap.line_counts,
                    shared |-> snap.shared]
      /\ hist' = [i \in 1..NLines |-> [t \in Tids |->
                    HistAfter(hist[i][t], none, t \in keys,
                              ~none /\ t \in st.credited[i])]]
      /\ UNCHANGED <<call, cfg, geometry>>

\* as Reset, with the counted-trail sets kept
ResetCountsOnly ==
  /\ _line_counts' = [i \in 1..NLines |-> ZeroCounts]
  /\ op' = "reset"
  /\ raised' = "none"
  /\ credited' = [i \in 1..NLines |-> {}]
  /\ hist' = [i \in 1..NLines |-> [t \in Tids |-> "never"]]
  /\ result' = [result EXCEPT !.shared = FALSE]
  /\ kept' = [kept EXCEPT !.shared = FALSE]
  /\ UNCHANGED <<call, cfg, geometry, gui, _counted_trails_list>>

\* reset()
Reset ==
  /\ _counted_trails_list' = [i \in 1..NLines |-> {}]
  /\ _line_counts' = [i \in 1..NLines |-> ZeroCounts]
  /\ op' = "reset"
  /\ raised' = "none"
  /\ credited' = [i \in 1..NLines |-> {}]
  /\ hist' = [i \in 1..NLines |-> [t \in Tids |-> "never"]]
  \* the engine has new records: nothing is shared with it any more
  /\ result' = [result EXCEPT !.shared = FALSE]
  /\ kept' = [kept EXCEPT !.shared = FALSE]
  /\ UNCHANGED <<call, cfg, geometry, gui>>

(***************************************************************************)
(* Interactive line editing: window_attach and LineCounter._mouse_callback. *)
(* Line indices are 1-based; self._gui_state["update"] is -1 or such an     *)
(* index.                                                                  *)
(***************************************************************************)
\* window_attach(win_name)
WindowAttach(win_name) ==
  /\ _win_name' = win_name
  /\ _mouse_callback_installed' = FALSE
  /\ op' = "window_attach"
  /\ raised' = "none"
  /\ UNCHANGED <<call, cfg, geometry, engine, result, credited, hist, kept,
                 _gui_state>>

\* line_update() of _mouse_callback, on the line vectors given
LineUpdate(vectors, idx) ==
  IF idx >= 1 THEN [vectors EXCEPT ![idx] = LineToVector(_lines[idx])]
  ELSE vectors

\* the four assignments of a hit of a button press (lines 507-511, 517-521)
Hit(g, idx, drag, click_point) ==
  [vectors |-> LineUpdate(g.vectors, g.gui.update),
   gui |-> [exists |-> TRUE, dragging |-> drag, offset |-> click_point,
            update |-> idx]]

\* norm(line_start_to_point_vector - projection) < 10 (lines 499-506): the
\* residual of the projection on line_vector has norm |cross| / |line_vector|;
\* a zero line_vector makes it nan, and the test false
BodyHit(idx, click_point) ==
  LET v == <<click_point[1] - _lines[idx][1], click_point[2] - _lines[idx][2]>>
      lv == _line_vectors[idx]
      c == Cross(lv, v)
  IN  /\ lv # <<0, 0>>
      /\ c * c < ThresholdPx * ThresholdPx * (lv[1] * lv[1] + lv[2] * lv[2])

\* norm(pt - click_point) < 10 (line 516)
PointHit(pt, click_point) ==
  LET dx == pt[1] - click_point[1]
      dy == pt[2] - click_point[2]
  IN  dx * dx + dy * dy < ThresholdPx * ThresholdPx

\* the end of the line hit first in for pt in [line[:2], line[2:]]; 0: none
EndHit(idx, click_point) ==
  IF PointHit(Pt1(_lines[idx]), click_point) THEN 1
  ELSE IF PointHit(Pt2(_lines[idx]), click_point) THEN 2
  ELSE 0

\* the loop of EVENT_RBUTTONDOWN from line idx on: the inner loop stops at
\* the first end hit, the outer one goes on
RECURSIVE RButtonLoop(_, _, _)
RButtonLoop(g, idx, click_point) ==
  IF idx > NLines THEN g
  ELSE Let(EndHit(idx, click_point), LAMBDA e :
         RButtonLoop(IF e = 0 THEN g
                     ELSE Hit(g, idx,
                              [kind |-> "point", idx |-> idx, end |-> e,
                               attached |-> cfg.lines_type = "ndarray"],
                              click_point),
                     idx + 1, click_point))

\* the lines whose body the click hits
BodyHits(click_point) == {idx \in 1..NLines : BodyHit(idx, click_point)}

\* the loop of EVENT_LBUTTONDOWN: it stops at the first line hit
LButtonLoop(g, click_point) ==
  IF BodyHits(click_point) = {} THEN g
  ELSE Let(CHOOSE idx \in BodyHits(click_point) :
             \A other \in BodyHits(click_point) : idx <= other,
           LAMBDA idx :
             Hit(g, idx, [kind |-> "line", idx |-> idx, end |-> 0,
                          attached |-> TRUE], click_point))

\* line with one end moved by delta
MovedEnd(line, end, delta) ==
  IF end = 1
  THEN <<line[1] + delta[1], line[2] + delta[2], line[3], line[4]>>
  ELSE <<line[1], line[2], line[3] + delta[1], line[4] + delta[2]>>

\* what the callback leaves unchanged; args keeps the pointer position the
\* callback was called with, << >> where the callback does not read it
MouseFrame(point) ==
  /\ args' = point
  /\ UNCHANGED <<ret, cfg, engine, result, credited, hist, kept, _win_name,
                 _mouse_callback_installed>>

\* _mouse_callback(EVENT_LBUTTONDOWN, x, y)
LButtonDown(click_point) ==
  /\ _gui_state.exists
  /\ \E g \in {LButtonLoop([vectors |-> _line_vectors, gui |-> _gui_state],
                            click_point)} :
       /\ _line_vectors' = g.vectors
       /\ _gui_state' = g.gui
  /\ op' = "press_left"
  /\ raised' = "none"
  /\ UNCHANGED _lines
  /\ MouseFrame(click_point)

\* _mouse_callback(EVENT_RBUTTONDOWN, x, y)
RButtonDown(click_point) ==
  /\ _gui_state.exists
  /\ \E g \in {RButtonLoop([vectors |-> _line_vectors, gui |-> _gui_state],
                            1, click_point)} :
       /\ _line_vectors' = g.vectors
       /\ _gui_state' = g.gui
  /\ op' = "press_right"
  /\ raised' = "none"
  /\ UNCHANGED _lines
  /\ MouseFrame(click_point)

\* _mouse_callback(EVENT_MOUSEMOVE, x, y): dragging += delta.  Adding the
\* two-element delta to a whole line, of four elements, raises ValueError;
\* adding it to an end moves the line when the end is a view of the line,
\* and only a value of its own otherwise
MouseMove(click_point) ==
  /\ _gui_state.exists
  /\ op' = "move"
  /\ LET dragging == _gui_state.dragging
         delta == <<click_point[1] - _gui_state.offset[1],
                    click_point[2] - _gui_state.offset[2]>>
     IN  CASE dragging.kind = "none" ->
                /\ raised' = "none"
                /\ UNCHANGED <<_lines, _gui_state>>
           [] dragging.kind = "line" ->
                /\ raised' = "ValueError"
                /\ UNCHANGED <<_lines, _gui_state>>
           [] dragging.kind = "point" ->
                /\ raised' = "none"
                /\ _lines' = IF dragging.attached
                             THEN [_lines EXCEPT ![dragging.idx] =
                                     MovedEnd(@, dragging.end, delta)]
                             ELSE _lines
                /\ _gui_state' = [_gui_state EXCEPT
                                    !.dragging.attached = cfg.lines_type = "ndarray",
                                    !.offset = click_point]
  /\ UNCHANGED _line_vectors
  /\ MouseFrame(click_point)

\* as ButtonUp, without line_update()
ButtonUpNoUpdate ==
  /\ _gui_state.exists
  /\ _gui_state' = [_gui_state EXCEPT !.dragging = NoDrag, !.update = -1]
  /\ op' = "release"
  /\ raised' = "none"
  /\ UNCHANGED <<_lines, _line_vectors>>
  /\ MouseFrame(<< >>)

\* _mouse_callback(EVENT_LBUTTONUP or EVENT_RBUTTONUP, x, y)
ButtonUp ==
  /\ _gui_state.exists
  /\ _line_vectors' = LineUpdate(_line_vectors, _gui_state.update)
  /\ _gui_state' = [_gui_state EXCEPT !.dragging = NoDrag, !.update = -1]
  /\ op' = "release"
  /\ raised' = "none"
  /\ UNCHANGED _lines
  /\ MouseFrame(<< >>)

(***************************************************************************)
(* The consumer of the results: it keeps the records a call published and  *)
(* may write to them.                                                      *)
(***************************************************************************)
\* the consumer keeps result.line_counts of the latest result
Keep ==
  /\ result.has_line_counts
  /\ kept' = [line_counts |-> result.line_counts, shared |-> result.shared]
  /\ op' = "keep"
  /\ raised' = "none"
  /\ UNCHANGED <<call, cfg, geometry, engine, gui, result, credited, hist>>

\* what the consumer writes to attribute f of a record: a value no count
\* has, or a per-class map with an entry
Scribble(f) ==
  IF f = "for_class" THEN [label \in {"car"} |-> ZeroSingle] ELSE -1

\* the consumer overwrites attribute f, a counter or the per-class map, of
\* the i-th record it keeps; records shared with the engine are the engine's
Mutate(i, f) ==
  /\ kept.line_counts[i][f] # Scribble(f)
  /\ kept' = [kept EXCEPT !.line_counts[i][f] = Scribble(f)]
  /\ _line_counts' = IF kept.shared
                     THEN [_line_counts EXCEPT ![i][f] = Scribble(f)]
                     ELSE _line_counts
  /\ op' = "mutate"
  /\ raised' = "none"
  /\ UNCHANGED <<call, cfg, geometry, _counted_trails_list, gui, result, credited,
                 hist>>

NoResult ==
  [has_trails |-> FALSE, keys |-> {}, tested |-> NoMap, trail_classes |-> NoMap,
   has_line_counts |-> FALSE, line_counts |-> << >>, shared |-> FALSE]

\* no self._gui_state yet: the mouse callback was never installed
NoGui == [exists |-> FALSE, dragging |-> NoDrag, offset |-> << >>, update |-> -1]

\* __init__(lines, ...), which ends with reset()
Constructed(options, window_name) ==
  /\ cfg = options
  /\ _lines = Lines0
  /\ _line_vectors = [i \in 1..Len(Lines0) |-> LineToVector(Lines0[i])]
  /\ _counted_trails_list = [i \in 1..Len(Lines0) |-> {}]
  /\ _line_counts = [i \in 1..Len(Lines0) |->
       IF options.absolute_directions
       THEN [left |-> 0, right |-> 0, top |-> 0, bottom |-> 0, for_class |-> NoMap]
       ELSE [in_direction |-> 0, out_direction |-> 0, for_class |-> NoMap]]
  /\ _win_name = window_name
  /\ _mouse_callback_installed = FALSE
  /\ _gui_state = NoGui
  /\ result = NoResult
  /\ raised = "none"
  /\ op = "init"
  /\ credited = [i \in 1..Len(Lines0) |-> {}]
  /\ hist = [i \in 1..Len(Lines0) |-> [t \in Tids |-> "never"]]
  /\ args = << >>
  /\ ret = << >>
  /\ kept = NoSnapshot

(***************************************************************************)
(* The counter without a window and without per-class records, under every *)
(* combination of the other options: analyze and reset in any order.       *)
(***************************************************************************)
Init ==
  \E options \in {c \in Configs : /\ ~c.per_class_display
                                  /\ c.lines_type = "tuple"} :
    Constructed(options, "None")


AnalyzeStep ==
  \E r \in Results(Tids, Boxes) : \E order \in Orders(DOMAIN r.trails) :
    Analyze(r, order, FALSE)

ResetStep == Reset

Next == AnalyzeStep \/ ResetStep

Spec == Init /\ [][Next]_vars

(***************************************************************************)
(* The counter attached to a window, counting relative to the lines: one   *)
(* identity, mouse events at a few points, frames and resets in any order. *)
(***************************************************************************)
\* where the pointer is pressed, moved to and released: the lower end of
\* the second line, a point to its right, and a point of the first line
ClickPoints == {<<40, 100>>, <<70, 100>>, <<50, 50>>}

InitGui ==
  \E options \in {c \in Configs : /\ ~c.per_class_display
                                  /\ ~c.absolute_directions
                                  /\ ~c.count_first_crossing
                                  /\ ~c.accumulate} :
    Constructed(options, "win")

AnalyzeGui ==
  \E r \in Results({1}, Boxes) : \E order \in Orders(DOMAIN r.trails) :
    \E window_exists \in Bool : Analyze(r, order, window_exists)

LButtonDownStep == \E click_point \in ClickPoints : LButtonDown(click_point)

RButtonDownStep == \E click_point \in ClickPoints : RButtonDown(click_point)

MouseMoveStep == \E click_point \in ClickPoints : MouseMove(click_point)

ButtonUpStep == ButtonUp

WindowAttachStep == WindowAttach("win")

NextGui ==
  \/ AnalyzeGui
  \/ ResetStep
  \/ LButtonDownStep
  \/ RButtonDownStep
  \/ MouseMoveStep
  \/ ButtonUpStep
  \/ WindowAttachStep

SpecGui == InitGui /\ [][NextGui]_vars

(***************************************************************************)
(* The counter with absolute directions and one identity whose trails go   *)
(* in every direction across the two lines.                                *)
(***************************************************************************)
\* boxes with bottom-center anchors (30,20) and (50,20), left and right of
\* the second line
BoxP == <<20, 0, 40, 20>>
BoxQ == <<40, 0, 60, 20>>
BoxesDir == {BoxU, BoxD, BoxP, BoxQ}

InitDir ==
  \E options \in {c \in Configs : /\ ~c.per_class_display
                                  /\ c.absolute_directions
                                  /\ ~c.count_first_crossing
                                  /\ c.lines_type = "tuple"} :
    Constructed(options, "None")

AnalyzeDir ==
  \E r \in Results({1}, BoxesDir) : \E order \in Orders(DOMAIN r.trails) :
    Analyze(r, order, FALSE)

NextDir == AnalyzeDir \/ ResetStep

SpecDir == InitDir /\ [][NextDir]_vars

(***************************************************************************)
(* The counter and a consumer that keeps published records and writes to   *)
(* them.                                                                   *)
(***************************************************************************)
InitAlias ==
  \E options \in {c \in Configs : /\ ~c.per_class_display
                                  /\ ~c.absolute_directions
                                  /\ ~c.count_first_crossing
                                  /\ c.lines_type = "tuple"} :
    Constructed(options, "None")

AnalyzeAlias ==
  \E r \in Results({1}, Boxes) : \E order \in Orders(DOMAIN r.trails) :
    Analyze(r, order, FALSE)

KeepStep == Keep

MutateStep ==
  \E i \in 1..Len(kept.line_counts) : \E f \in Buckets \cup {"for_class"} :
    Mutate(i, f)

NextAlias == AnalyzeAlias \/ ResetStep \/ KeepStep \/ MutateStep

SpecAlias == InitAlias /\ [][NextAlias]_vars

(***************************************************************************)
(* The counter with per-class records, counting relative to the lines: one *)
(* identity, which the tracker may give either class label, or none.       *)
(***************************************************************************)
InitClass ==
  \E options \in {c \in Configs : /\ c.per_class_display
                                  /\ ~c.absolute_directions
                                  /\ c.lines_type = "tuple"} :
    Constructed(options, "None")

AnalyzeClass ==
  \E r \in Results({1}, Boxes) : \E order \in Orders(DOMAIN r.trails) :
    Analyze(r, order, FALSE)

NextClass == AnalyzeClass \/ ResetStep

SpecClass == InitClass /\ [][NextClass]_vars

(***************************************************************************)
(* The counter with per-class records and without accumulation: two        *)
(* identities, iterated in either order, with or without class label.      *)
(***************************************************************************)
InitOrder ==
  \E options \in {c \in Configs : /\ c.per_class_display
                                  /\ ~c.absolute_directions
                                  /\ ~c.accumulate
                                  /\ c.lines_type = "tuple"} :
    Constructed(options, "None")

AnalyzeOrder ==
  \E r \in ResultsOneLabel(Tids, Boxes) : \E order \in Orders(DOMAIN r.trails) :
    Analyze(r, order, FALSE)

NextOrder == AnalyzeOrder \/ ResetStep

SpecOrder == InitOrder /\ [][NextOrder]_vars

(***************************************************************************)
(* What the properties below speak of.                                     *)
(***************************************************************************)
\* the frame carried trails, and at least one
NonEmptyCall(res) == res.has_trails /\ res.keys # {}

\* the tested segment seg, in half pixels, crosses line i by intersect
CrossesLine(i, seg) ==
  /\ Len(seg) = 2
  /\ Intersect(Half(Pt1(_lines[i])), Half(Pt2(_lines[i])), seg[1], seg[2])

\* the candidates of line i in a frame with these identities, counted being
\* the counted-trail sets before the call
CandidatesOf(i, keys, counted) ==
  IF cfg.count_first_crossing THEN keys \ counted[i] ELSE keys

\* the candidates of line i whose tested segment crosses it
Detected(i, keys, tested, counted) ==
  {t \in CandidatesOf(i, keys, counted) : CrossesLine(i, tested[t])}

\* the vector of a tested segment
TrailVector(seg) == LineToVector(seg[1] \o seg[2])

\* how many identities of S add one to bucket f of line i
BucketGain(i, f, S, tested) ==
  Cardinality({t \in S :
    CountIncrement(TrailVector(tested[t]), _line_vectors[i])[f] = 1})

IsLive(h) == h \in {"live", "again"}

(***************************************************************************)
(* Properties of the counting engine.                                      *)
(***************************************************************************)
\* C1: with count_first_crossing, an identity that has been credited on a
\* line and has been in the trails of every frame processed since is not
\* credited on that line again, whatever its trail crosses.
C1_CreditedOnce ==
  [][(op' = "analyze" /\ cfg.count_first_crossing) =>
       \A i \in 1..NLines : \A t \in Tids :
         IsLive(hist[i][t]) /\ t \in result'.keys => t \notin credited'[i]]_vars

C1_Replayed ==
  /\ op = "analyze" /\ cfg.count_first_crossing /\ cfg.accumulate
  /\ \E i \in 1..NLines : \E t \in result.keys :
       /\ IsLive(hist[i][t])
       /\ t \notin credited[i]
       /\ CrossesLine(i, result.tested[t])
       /\ IsCounted(_line_counts[i])
       /\ \A f \in Buckets : _line_counts[i][f] <= 1

\* C2 as stated: with count_first_crossing, an identity credited on a line
\* and then missing from at least one processed frame, a frame without
\* trails included, is credited again when it reappears with a tested segment
\* that crosses the line.
C2_CreditedAfterAnyGap ==
  [][(op' = "analyze" /\ cfg.count_first_crossing) =>
       \A i \in 1..NLines : \A t \in Tids :
         /\ hist[i][t] \in {"idle", "expired"}
         /\ t \in result'.keys
         /\ CrossesLine(i, result'.tested[t])
         => t \in credited'[i]]_vars

\* C2 amended: with count_first_crossing, an identity credited on a line and
\* then missing from the trails of at least one processed frame that had
\* trails is credited again when it reappears with a tested segment that
\* crosses the line and the call returns.
C2_CreditedAfterExpiry ==
  [][(op' = "analyze" /\ cfg.count_first_crossing /\ raised' = "none") =>
       \A i \in 1..NLines : \A t \in Tids :
         /\ hist[i][t] = "expired"
         /\ t \in result'.keys
         /\ CrossesLine(i, result'.tested[t])
         => t \in credited'[i]]_vars

C2_CreditedAgain ==
  /\ op = "analyze" /\ cfg.count_first_crossing
  /\ \E i \in 1..NLines : \E t \in result.keys :
       hist[i][t] = "again" /\ t \in credited[i]

\* C3: a call with a result that has no trails, the attribute absent or the
\* dictionary empty, raises nothing and leaves the count records and the
\* counted-trail sets as they were, with and without accumulation.
C3_NoTrailsNoOp ==
  [][(op' = "analyze" /\ ~NonEmptyCall(result')) =>
       /\ raised' = "none"
       /\ UNCHANGED <<_line_counts, _counted_trails_list>>]_vars

C3_NoTrailsKept ==
  /\ op = "analyze" /\ ~NonEmptyCall(result) /\ result.has_trails
  /\ ~cfg.accumulate
  /\ \E i \in 1..NLines :
       /\ _counted_trails_list[i] # {}
       /\ IsCounted(_line_counts[i])

C5_IndependentCopy ==
  [][/\ op' = "mutate" => UNCHANGED _line_counts
     /\ op' \in {"analyze", "reset"} => kept'.line_counts = kept.line_counts]_vars

C5_MutatedThenCounted ==
  /\ op = "analyze" /\ cfg.accumulate /\ result.has_line_counts
  /\ \E i \in 1..Len(kept.line_counts) :
       /\ \E f \in Buckets : kept.line_counts[i][f] = -1
       /\ kept.line_counts[i].for_class # NoMap
  /\ \A i \in 1..NLines :
       /\ \A f \in Buckets : _line_counts[i][f] >= 0
       /\ _line_counts[i].for_class = NoMap
  /\ IsCounted(_line_counts[1])
  /\ result.line_counts = _line_counts

\* C6: without accumulation, the records published for a frame with trails
\* hold exactly the crossings detected in that frame among the candidates.
C6_FrameCounts ==
  [][(op' = "analyze" /\ ~cfg.accumulate /\ NonEmptyCall(result')
        /\ raised' = "none") =>
       \A i \in 1..NLines : \A f \in Buckets :
         result'.line_counts[i][f] =
           BucketGain(i, f, Detected(i, result'.keys, result'.tested,
                                     _counted_trails_list), result'.tested)]_vars

C6_EarlierDropped ==
  /\ op = "analyze" /\ ~cfg.accumulate /\ cfg.count_first_crossing
  /\ \E i \in 1..NLines : \E t, u \in result.keys :
       /\ IsLive(hist[i][t]) /\ t \notin credited[i]
       /\ credited[i] = {u}
       /\ \E f \in Buckets : result.line_counts[i][f] = 1

\* C7: with accumulation, no counter decreases in a call of analyze, and the
\* records published for a frame with trails hold the values before the call
\* plus the crossings detected in that frame among the candidates.
C7_Accumulated ==
  [][(op' = "analyze" /\ cfg.accumulate) =>
       \A i \in 1..NLines : \A f \in Buckets :
         /\ _line_counts'[i][f] >= _line_counts[i][f]
         /\ (NonEmptyCall(result') /\ raised' = "none") =>
              result'.line_counts[i][f] = _line_counts[i][f] +
                BucketGain(i, f, Detected(i, result'.keys, result'.tested,
                                          _counted_trails_list), result'.tested)]_vars

C7_AddedToEarlier ==
  /\ op = "analyze" /\ cfg.accumulate
  /\ \E i \in 1..NLines :
       /\ Cardinality(credited[i]) = 1
       /\ \E f \in Buckets : result.line_counts[i][f] = 2

\* the crossings a record counts
Crossings(single) == single.in_direction + single.out_direction

\* the tie-break stated for a zero cross product: the element-wise signs of
\* the two vectors are equal
SameSigns(u, v) == <<Sign(u[1]), Sign(u[2])>> = <<Sign(v[1]), Sign(v[2])>>

\* a crossing by trail vector u of a line with stored vector v counts as out
CountsOut(u, v) == Cross(u, v) > 0 \/ (Cross(u, v) = 0 /\ SameSigns(u, v))

\* C9: counting relative to the lines, every crossing detected in a call of
\* analyze adds one to exactly one of in_direction and out_direction of its
\* line, whatever the trail vector and the stored line vector, a zero cross
\* product included.
C9_OneOfInOut ==
  [][(op' = "analyze" /\ ~cfg.absolute_directions /\ NonEmptyCall(result')) =>
       \A i \in 1..NLines :
         Crossings(_line_counts'[i]) =
           (IF cfg.accumulate THEN Crossings(_line_counts[i]) ELSE 0) +
           Cardinality(Detected(i, result'.keys, result'.tested,
                                _counted_trails_list))]_vars

\* C10: counting relative to the lines, a detected crossing counts as out
\* when the cross product of trail vector and stored line vector is
\* positive, as in when it is negative, and when it is zero as out if the
\* element-wise signs of the two vectors are equal and as in otherwise.
C10_BySign ==
  [][(op' = "analyze" /\ ~cfg.absolute_directions /\ NonEmptyCall(result')) =>
       \A i \in 1..NLines :
         LET D == Detected(i, result'.keys, result'.tested, _counted_trails_list)
             O == {t \in D : CountsOut(TrailVector(result'.tested[t]),
                                       _line_vectors[i])}
             base == IF cfg.accumulate THEN _line_counts[i] ELSE ZeroCounts
         IN  /\ _line_counts'[i].out_direction =
                  base.out_direction + Cardinality(O)
             /\ _line_counts'[i].in_direction =
                  base.in_direction + Cardinality(D \ O)]_vars

StraightDown == <<Half(<<50, 0>>), Half(<<50, 100>>)>>

\* identity 1 alone, with a trail of one point, was the frame just analyzed
\* and the first line has no count and no counted identity
AfterFirstPoint ==
  /\ op = "analyze" /\ result.keys = {1} /\ result.tested[1] = << >>
  /\ ~IsCounted(_line_counts[1])
  /\ _counted_trails_list[1] = {}

\* identity 1 alone, with the trail from (50,0) to (50,100), is the frame
\* analyzed by this step
SecondPointDown ==
  /\ op' = "analyze" /\ result'.keys = {1}
  /\ result'.tested[1] = StraightDown

\* C11 as stated: counting relative to the line (0,50)-(100,50) with
\* whole_trail, an identity whose trail goes from (50,0) to (50,100) over
\* two frames is counted once, as out: out_direction = 1, in_direction = 0.
C11_CountedOut ==
  [][(~cfg.absolute_directions /\ AfterFirstPoint /\ SecondPointDown) =>
       /\ _line_counts'[1].out_direction = 1
       /\ _line_counts'[1].in_direction = 0]_vars

\* C11 amended: the same trail is counted once, as in: in_direction = 1,
\* out_direction = 0, the cross product of (0,100) and (100,0) being
\* negative.
C11_CountedIn ==
  [][(~cfg.absolute_directions /\ AfterFirstPoint /\ SecondPointDown) =>
       /\ _line_counts'[1].in_direction = 1
       /\ _line_counts'[1].out_direction = 0
       /\ result'.line_counts[1] = _line_counts'[1]]_vars

C11_DownCounted ==
  /\ op = "analyze" /\ ~cfg.absolute_directions /\ cfg.whole_trail
  /\ _lines[1] = <<0, 50, 100, 50>>
  /\ result.keys = {1}
  /\ credited[1] = {1}
  /\ result.tested[1] = StraightDown
  /\ result.has_line_counts
  /\ result.line_counts[1].in_direction = 1
  /\ result.line_counts[1].out_direction = 0

\* the sum of counter f over the class sub-records with labels in S
RECURSIVE SumClasses(_, _, _)
SumClasses(for_class, S, f) ==
  IF S = {} THEN 0
  ELSE LET label == CHOOSE l \in S : TRUE
       IN  for_class[label][f] + SumClasses(for_class, S \ {label}, f)

\* by how much counter f of a record exceeds the sum over its sub-records
ClassGap(single, f) ==
  single[f] - SumClasses(single.for_class, DOMAIN single.for_class, f)

\* the identities credited on line i by the last call that have no label
UnlabelledCredited(i) == credited[i] \ DOMAIN result.trail_classes

\* C12: with per_class_display, after every call every counter of every
\* line is at least the sum of that counter over the class sub-records of
\* the line, and a call in which every credited identity has a class label
\* leaves the difference as it was (zero from the start of the frame without
\* accumulation, zero after reset).
C12_ClassSums ==
  [][cfg.per_class_display =>
       \A i \in 1..NLines : \A f \in Buckets :
         /\ ClassGap(_line_counts[i], f)' >= 0
         /\ op' = "reset" => ClassGap(_line_counts[i], f)' = 0
         /\ (op' = "analyze" /\ UnlabelledCredited(i)' = {}) =>
              ClassGap(_line_counts[i], f)' =
                IF cfg.accumulate \/ ~NonEmptyCall(result')
                THEN ClassGap(_line_counts[i], f) ELSE 0]_vars

C12_TwoClasses ==
  /\ op = "analyze" /\ cfg.per_class_display /\ result.has_line_counts
  /\ DOMAIN result.line_counts[1].for_class = Labels
  /\ \E f \in Buckets :
       /\ result.line_counts[1][f] = 2
       /\ \A label \in Labels : result.line_counts[1].for_class[label][f] = 1

\* C13 as stated: with per_class_display, a call fails with the error of a
\* missing class label whenever the frame has a trail without class label.
C13_AnyUnlabelledFails ==
  (op = "analyze" /\ cfg.per_class_display /\ NonEmptyCall(result)
     /\ result.keys \ DOMAIN result.trail_classes # {})
    => raised = "KeyError"

\* C13 amended: with per_class_display, a call fails with the error of a
\* missing class label exactly when some candidate of some line whose tested
\* segment crosses the line has no class label.
C13_UnlabelledCrossingFails ==
  [][(op' = "analyze" /\ cfg.per_class_display) =>
       (raised' = "KeyError" <=>
          \E i \in 1..NLines :
            Detected(i, result'.keys, result'.tested, _counted_trails_list)
              \ DOMAIN result'.trail_classes # {})]_vars

C13_Failed ==
  /\ op = "analyze" /\ cfg.per_class_display
  /\ raised = "KeyError"
  /\ ~result.has_line_counts
  /\ 1 \in result.keys \ DOMAIN result.trail_classes

\* C14: reset, wherever it is called between calls of analyze, empties the
\* counted-trail set of every line and zeroes every counter of every line,
\* the per-class ones included; in the call of analyze that follows, every
\* identity whose tested segment crosses a line is credited on it, credited
\* before the reset or not.
C14_ResetClears ==
  [][/\ op' = "reset" =>
          \A i \in 1..NLines :
            /\ _counted_trails_list'[i] = {}
            /\ \A f \in Buckets : _line_counts'[i][f] = 0
            /\ _line_counts'[i].for_class = NoMap
     /\ (op = "reset" /\ op' = "analyze" /\ raised' = "none") =>
          \A i \in 1..NLines :
            credited'[i] =
              {t \in result'.keys : CrossesLine(i, result'.tested[t])}]_vars

C14_ResetAfterCredit ==
  /\ op = "reset" /\ cfg.count_first_crossing /\ cfg.accumulate
  /\ result.has_line_counts
  /\ result.line_counts[1].for_class # NoMap
  /\ IsCounted(result.line_counts[1])
  /\ 1 \in result.keys /\ CrossesLine(1, result.tested[1])
  /\ _line_counts[1] = ZeroCounts
  /\ _counted_trails_list[1] = {}

(***************************************************************************)
(* The counter with whole_trail set or not, one identity, trails of up to  *)
(* one box more, which may stop on the first line.                         *)
(***************************************************************************)
InitTrail ==
  \E options \in {c \in ConfigsOver(Bool) : /\ ~c.per_class_display
                                             /\ ~c.absolute_directions
                                             /\ c.lines_type = "tuple"} :
    Constructed(options, "None")

AnalyzeTrail ==
  \E r \in ResultsLong({1}, BoxesOn) : \E order \in Orders(DOMAIN r.trails) :
    Analyze(r, order, FALSE)

NextTrail == AnalyzeTrail \/ ResetStep

SpecTrail == InitTrail /\ [][NextTrail]_vars

(***************************************************************************)
(* The counter with relative directions, without accumulation, and one     *)
(* identity, whose trail may cross the second line only, from (30,20) to   *)
(* (50,20), the first line only, from (50,20) to (50,100), or both lines,  *)
(* from (30,20) to (50,100).                                               *)
(***************************************************************************)
BoxesPair == {BoxP, BoxQ, BoxD}

InitPair ==
  \E options \in {c \in Configs : /\ ~c.absolute_directions
                                  /\ ~c.accumulate
                                  /\ c.lines_type = "tuple"} :
    Constructed(options, "None")

AnalyzePair ==
  \E r \in Results({1}, BoxesPair) : \E order \in Orders(DOMAIN r.trails) :
    Analyze(r, order, FALSE)

NextPair == AnalyzePair \/ ResetStep

SpecPair == InitPair /\ [][NextPair]_vars

(***************************************************************************)
(* The functions of math_support on their own: no LineCounter exists, the  *)
(* arguments of one call are drawn from a small grid, the call returns.    *)
(***************************************************************************)
NoCounter ==
  /\ cfg = NoMap
  /\ _lines = << >>
  /\ _line_vectors = << >>
  /\ _counted_trails_list = << >>
  /\ _line_counts = << >>
  /\ _win_name = "None"
  /\ _mouse_callback_installed = FALSE
  /\ _gui_state = NoGui
  /\ result = NoResult
  /\ raised = "none"
  /\ op = "none"
  /\ credited = << >>
  /\ hist = << >>
  /\ kept = NoSnapshot

Points == (0..GridMax) \X (0..GridMax)

\* the call has returned: only ret and op change
Returned(name, value) ==
  /\ ret = << >>
  /\ ret' = <<value>>
  /\ op' = name
  /\ UNCHANGED <<args, cfg, geometry, engine, gui, result, raised, credited,
                 hist, kept>>

InitIntersect ==
  /\ NoCounter
  /\ args \in [a : Points, b : Points, c : Points, d : Points]
  /\ ret = << >>

IntersectStep == Returned("intersect", Intersect(args.a, args.b, args.c, args.d))

NextIntersect == IntersectStep

SpecIntersect == InitIntersect /\ [][NextIntersect]_vars

\* an anchor that is none of the members of AnchorPoint
Unsupported == "center"

GridBoxes == (0..GridMax) \X (0..GridMax) \X (0..GridMax) \X (0..GridMax)

InitAnchor ==
  /\ NoCounter
  /\ args \in [xyxy : GridBoxes, anchor : AnchorPoints \cup {Unsupported}]
  /\ ret = << >>

AnchorStep ==
  Returned("get_anchor_coordinates",
           GetAnchorCoordinates(args.xyxy, args.anchor))

NextAnchor == AnchorStep

SpecAnchor == InitAnchor /\ [][NextAnchor]_vars

\* what a call of analyze leaves behind, for every iteration order of the
\* identities of the frame
Outcomes(r) ==
  {[counted |-> st.counted, counts |-> st.counts, raised |-> st.raised] :
     st \in {Analyzed(r, order) : order \in Orders(DOMAIN r.trails)}}

SignedArea(p, q, x) ==
  (p[1] - q[1]) * (x[2] - p[2]) - (p[2] - q[2]) * (x[1] - p[1])

SameStrictSign(s, t) == (s > 0 /\ t > 0) \/ (s < 0 /\ t < 0)

\* C16 (as stated): intersect returns false exactly when the signed areas
\* of (a,b,c) and (a,b,d) are both strictly positive or both strictly
\* negative, or those of (c,d,a) and (c,d,b) are; in every other case it
\* returns true.
C16_StrictSigns ==
  op = "intersect" =>
    (ret[1] = FALSE <=>
       \/ SameStrictSign(SignedArea(args.a, args.b, args.c),
                         SignedArea(args.a, args.b, args.d))
       \/ SameStrictSign(SignedArea(args.c, args.d, args.a),
                         SignedArea(args.c, args.d, args.b)))

\* C16 (amended): intersect returns false exactly when the signed areas of
\* (a,b,c) and (a,b,d) have the same sign, both zero included, or those of
\* (c,d,a) and (c,d,b) have; in every other case it returns true.
C16_EqualSigns ==
  op = "intersect" =>
    (ret[1] = FALSE <=>
       \/ Sign(SignedArea(args.a, args.b, args.c))
            = Sign(SignedArea(args.a, args.b, args.d))
       \/ Sign(SignedArea(args.c, args.d, args.a))
            = Sign(SignedArea(args.c, args.d, args.b)))

\* two collinear segments that overlap are found not to intersect
C16_CollinearOverlap ==
  /\ op = "intersect"
  /\ args = [a |-> <<0, 0>>, b |-> <<2, 0>>, c |-> <<1, 0>>, d |-> <<2, 0>>]
  /\ ret[1] = FALSE

\* twice the x of the anchor: the left edge, the right edge, or midway
AnchorX2(xyxy, anchor) ==
  IF anchor \in {"CENTER_LEFT", "TOP_LEFT", "BOTTOM_LEFT"} THEN 2 * xyxy[1]
  ELSE IF anchor \in {"CENTER_RIGHT", "TOP_RIGHT", "BOTTOM_RIGHT"}
       THEN 2 * xyxy[3]
  ELSE xyxy[1] + xyxy[3]

\* twice the y of the anchor: the top edge, the bottom edge, or midway
AnchorY2(xyxy, anchor) ==
  IF anchor \in {"TOP_LEFT", "TOP_CENTER", "TOP_RIGHT"} THEN 2 * xyxy[2]
  ELSE IF anchor \in {"BOTTOM_LEFT", "BOTTOM_CENTER", "BOTTOM_RIGHT"}
       THEN 2 * xyxy[4]
  ELSE xyxy[2] + xyxy[4]

\* C17: get_anchor_coordinates maps a box (x0, y0, x1, y1) to its center,
\* to the midpoint of the edge or to the corner its anchor names, for each
\* of the nine anchors, and raises ValueError for any other anchor.
C17_AnchorOfBox ==
  op = "get_anchor_coordinates" =>
    IF args.anchor \in AnchorPoints
    THEN ret[1] = <<AnchorX2(args.xyxy, args.anchor),
                    AnchorY2(args.xyxy, args.anchor)>>
    ELSE ret[1] = "ValueError"

C17_BottomCenter ==
  /\ op = "get_anchor_coordinates"
  /\ args = [xyxy |-> <<0, 1, 1, 2>>, anchor |-> "BOTTOM_CENTER"]
  /\ ret[1] = <<1, 4>>

\* bottom-center anchor k of a trail of boxes, in half pixels
TrailPoint(trail, k) == <<trail[k][1] + trail[k][3], 2 * trail[k][4]>>

\* the trail has two points or more, and the segment from its first point
\* (whole_trail) or its second-to-last point (otherwise) to its last point
\* crosses line i
SegmentCrosses(i, trail) ==
  /\ Len(trail) >= 2
  /\ Intersect(Half(Pt1(_lines[i])), Half(Pt2(_lines[i])),
               TrailPoint(trail, IF cfg.whole_trail THEN 1 ELSE Len(trail) - 1),
               TrailPoint(trail, Len(trail)))

\* C18: in a call of analyze on a frame with trails, the candidates of a
\* line credited on it are those with a trail of two points or more whose
\* segment from the first point to the last (whole_trail) or from the
\* second-to-last point to the last (otherwise) crosses the line; only
\* those are added to its counted-trail set, so an identity with fewer than
\* two points is neither credited nor added.
C18_SegmentTested ==
  \A r \in {x \in ResultsLong({1}, BoxesOn) : DOMAIN x.trails # {}} :
    \A order \in Orders(DOMAIN r.trails) :
      \A st \in {Analyzed(r, order)} :
        \A i \in 1..NLines :
          /\ st.credited[i] =
               {t \in CandidatesOf(i, DOMAIN r.trails, _counted_trails_list) :
                  SegmentCrosses(i, r.trails[t])}
          /\ st.counted[i] \ _counted_trails_list[i] \subseteq st.credited[i]
          /\ cfg.count_first_crossing =>
               st.credited[i] \subseteq st.counted[i]

C18_LastStepTested ==
  /\ op = "analyze" /\ ~cfg.whole_trail /\ cfg.count_first_crossing
  /\ 1 \in result.keys
  /\ result.tested[1] = <<Half(<<50, 0>>), Half(<<50, 100>>)>>
  /\ credited[1] = {1}
  /\ _counted_trails_list[1] = {1}

\* C19: without count_first_crossing, a call of analyze on a frame with
\* trails credits on every line each identity of the frame whose tested
\* segment crosses it, credited by earlier calls or not, and each credit
\* adds one crossing to the record of the line; an identity crossing in
\* consecutive frames is credited in each of them.
C19_CreditedEveryFrame ==
  [][(op' = "analyze" /\ ~cfg.count_first_crossing /\ NonEmptyCall(result')) =>
       /\ raised' = "none"
       /\ \A i \in 1..NLines :
            /\ credited'[i] =
                 {t \in result'.keys : CrossesLine(i, result'.tested[t])}
            /\ _counted_trails_list'[i] = {}
            /\ ~cfg.absolute_directions =>
                 Crossings(_line_counts'[i]) =
                   (IF cfg.accumulate THEN Crossings(_line_counts[i]) ELSE 0)
                     + Cardinality(credited'[i])]_vars

C19_CreditedTwice ==
  /\ op = "analyze" /\ ~cfg.count_first_crossing /\ cfg.accumulate
  /\ ~cfg.absolute_directions
  /\ result.keys = {1} /\ credited[1] = {1}
  /\ _line_counts[1].in_direction = 2

\* C20: whenever a call of analyze detects a crossing of a line, the stored
\* vector of that line, which classifies the direction, is the difference
\* of the endpoints of the line, which the intersection test read, whatever
\* mouse events came before the call.
C20_VectorOfEndpoints ==
  [][op' = "analyze" =>
       \A i \in 1..NLines :
         (\E t \in result'.keys : CrossesLine(i, result'.tested[t])) =>
           _line_vectors[i] = LineToVector(_lines[i])]_vars

\* line i is the target of a drag in progress
DragTarget(i) ==
  _gui_state.dragging.kind # "none" /\ _gui_state.dragging.idx = i

\* C21: after any sequence of mouse events, window_attach, analyze and
\* reset, the stored vector of every line that is not the target of a drag
\* in progress is the difference of the endpoints of the line.
C21_VectorsCurrent ==
  \A i \in 1..NLines :
    ~DragTarget(i) => _line_vectors[i] = LineToVector(_lines[i])

\* C22: a button release leaves no drag target and no line marked for
\* update; the stored vector of the line that was being dragged becomes the
\* difference of its endpoints, no other vector changes, and no line
\* changes; without a drag in progress nothing but that changes.
C22_ReleaseToIdle ==
  [][op' = "release" =>
       /\ _gui_state'.dragging = NoDrag
       /\ _gui_state'.update = -1
       /\ _lines' = _lines
       /\ \A i \in 1..NLines :
            _line_vectors'[i] = IF DragTarget(i) THEN LineToVector(_lines[i])
                                ELSE _line_vectors[i]]_vars

C22_ReleasedAfterMove ==
  /\ op = "release"
  /\ _lines[2] = <<40, 0, 70, 100>>
  /\ _line_vectors[2] = <<30, 100>>
  /\ _gui_state.dragging = NoDrag

\* line moved as a whole by delta
MovedLine(line, delta) ==
  <<line[1] + delta[1], line[2] + delta[2],
    line[3] + delta[1], line[4] + delta[2]>>

\* C23: a move event during a drag returns normally and moves the dragged
\* line, as a whole or at the dragged end, by the displacement of the
\* pointer since the previous event; it changes no other end, no other line
\* and no stored vector; without a drag it changes no line and no vector.
C23_MoveTranslates ==
  [][op' = "move" =>
       LET dragging == _gui_state.dragging
           delta == <<args'[1] - _gui_state.offset[1],
                      args'[2] - _gui_state.offset[2]>>
       IN  /\ raised' = "none"
           /\ _line_vectors' = _line_vectors
           /\ \A i \in 1..NLines :
                _lines'[i] =
                  IF dragging.kind = "line" /\ dragging.idx = i
                  THEN MovedLine(_lines[i], delta)
                  ELSE IF dragging.kind = "point" /\ dragging.idx = i
                  THEN MovedEnd(_lines[i], dragging.end, delta)
                  ELSE _lines[i]]_vars

MouseEvents == {"press_left", "press_right", "move", "release"}

\* C24: a mouse event changes no count record and no counted-trail set;
\* analyze and reset change no line, no stored vector, and neither the drag
\* target, the line marked for update nor the last pointer position.
C24_EditingApart ==
  [][/\ op' \in MouseEvents => UNCHANGED <<engine, result, kept>>
     /\ op' \in {"analyze", "reset"} =>
          /\ UNCHANGED geometry
          /\ _gui_state'.dragging = _gui_state.dragging
          /\ _gui_state'.update = _gui_state.update
          /\ _gui_state'.offset = _gui_state.offset]_vars

\* C25 (as stated): with count_first_crossing, after every call of analyze
\* the counted-trail set of each line holds only identities of the frame of
\* that call, a frame without trails having none.
C25_CountedAreActive ==
  [][(op' = "analyze" /\ cfg.count_first_crossing) =>
       \A i \in 1..NLines : _counted_trails_list'[i] \subseteq result'.keys]_vars

\* C25 (amended): with count_first_crossing, after every call of analyze on
\* a frame whose trails are not empty the counted-trail set of each line
\* holds only identities of that frame; a call on a frame without trails,
\* or with empty trails, leaves the sets as they were.
C25_CountedAreActiveIfTrails ==
  [][(op' = "analyze" /\ cfg.count_first_crossing) =>
       IF NonEmptyCall(result')
       THEN \A i \in 1..NLines :
              _counted_trails_list'[i] \subseteq result'.keys
       ELSE UNCHANGED _counted_trails_list]_vars

C25_Pruned ==
  /\ op = "analyze" /\ cfg.count_first_crossing
  /\ NonEmptyCall(result)
  /\ 1 \notin result.keys
  /\ hist[1][1] = "expired"
  /\ 1 \notin _counted_trails_list[1]

\* the signed areas of the first test, of (a,b,c) and (a,b,d), and of the
\* second, of (c,d,a) and (c,d,b)
Areas1 == <<SignedArea(args.a, args.b, args.c), SignedArea(args.a, args.b, args.d)>>
Areas2 == <<SignedArea(args.c, args.d, args.a), SignedArea(args.c, args.d, args.b)>>

OneZero(p) == (p[1] = 0) # (p[2] = 0)

\* C26 (as stated): when a signed area of either test of intersect is zero,
\* intersect reports no intersection.
C26_ZeroMatchesAny ==
  op = "intersect" =>
    ((0 \in {Areas1[1], Areas1[2], Areas2[1], Areas2[2]}) => ret[1] = FALSE)

\* C26 (amended): in intersect a zero signed area matches only another zero
\* one: a test with both areas zero reports no intersection, while a test
\* with exactly one area zero does not, and the result is then that of the
\* other test, true when the signs of its two areas differ.
C26_ZeroMatchesZero ==
  op = "intersect" =>
    /\ (Areas1 = <<0, 0>> \/ Areas2 = <<0, 0>>) => ret[1] = FALSE
    /\ OneZero(Areas1) => (ret[1] <=> Sign(Areas2[1]) # Sign(Areas2[2]))
    /\ OneZero(Areas2) => (ret[1] <=> Sign(Areas1[1]) # Sign(Areas1[2]))

\* the end of one segment on the inside of the other: found to intersect
C26_Touching ==
  /\ op = "intersect"
  /\ args = [a |-> <<0, 0>>, b |-> <<2, 0>>, c |-> <<1, 0>>, d |-> <<1, 2>>]
  /\ OneZero(Areas1)
  /\ ret[1] = TRUE

\* C27: when intersect finds that a tested segment from c to d crosses a
\* line from a to b, the cross product count_increment takes of the trail
\* vector d - c and the line vector b - a is not zero: the branch of a zero
\* cross product is not taken for a line whose stored vector is that of its
\* endpoints.
C27_HitNotParallel ==
  (op = "intersect" /\ ret[1]) =>
    Cross(LineToVector(args.c \o args.d), LineToVector(args.a \o args.b)) # 0

C27_Crossed ==
  /\ op = "intersect"
  /\ args = [a |-> <<0, 1>>, b |-> <<2, 1>>, c |-> <<1, 0>>, d |-> <<1, 2>>]
  /\ ret[1]
  /\ Cross(<<0, 2>>, <<2, 0>>) = -4

\* the side of line i the point p, in half pixels, is on: 0 on its carrier
SideOf(i, p) ==
  Sign(SignedArea(Half(Pt1(_lines[i])), Half(Pt2(_lines[i])), p))

\* p, in half pixels, is on line i and is neither of its ends
OnInterior(i, p) ==
  LET a == Half(Pt1(_lines[i]))
      b == Half(Pt2(_lines[i]))
  IN  /\ SideOf(i, p) = 0
      /\ (p[1] - a[1]) * (p[1] - b[1]) + (p[2] - a[2]) * (p[2] - b[2]) < 0

\* the segments tested for identity t in two frames: the first ends on the
\* inside of line i, the second starts there and ends on the other side
ThroughPoint(i, seg1, seg2) ==
  /\ Len(seg1) = 2 /\ Len(seg2) = 2
  /\ seg1[2] = seg2[1]
  /\ OnInterior(i, seg1[2])
  /\ SideOf(i, seg1[1]) * SideOf(i, seg2[2]) = -1

\* C28: without whole_trail and without count_first_crossing, an identity
\* whose last step ends on the inside of a line in one frame, coming from
\* one side, and leads from there to the other side in the next frame, is
\* credited on the line in both frames.
C28_CreditedTwiceThrough ==
  [][(/\ op = "analyze" /\ op' = "analyze"
      /\ ~cfg.whole_trail /\ ~cfg.count_first_crossing) =>
       \A i \in 1..NLines : \A t \in result.keys \cap result'.keys :
         ThroughPoint(i, result.tested[t], result'.tested[t]) =>
           /\ raised = "none" /\ raised' = "none"
           /\ t \in credited[i] /\ t \in credited'[i]
           /\ Crossings(_line_counts'[i]) =
                IF cfg.accumulate THEN Crossings(_line_counts[i]) + 1
                ELSE 1]_vars

C28_ThroughTheLine ==
  /\ op = "analyze" /\ ~cfg.whole_trail /\ ~cfg.count_first_crossing
  /\ cfg.accumulate
  /\ result.keys = {1}
  /\ result.tested[1] = <<Half(<<50, 50>>), Half(<<50, 100>>)>>
  /\ credited[1] = {1}
  /\ _line_counts[1].in_direction = 2

\* the first line on which a candidate without class label crosses: the
\* line analyze is at when it fails; 0 when there is none
FailingLine(keys, tested, classes, counted) ==
  LET bad == {i \in 1..NLines :
                Detected(i, keys, tested, counted) \ DOMAIN classes # {}}
  IN  IF bad = {} THEN 0 ELSE CHOOSE i \in bad : \A j \in bad : i <= j

\* C29: a call of analyze that fails for the missing class label of a
\* crossing identity t on line L has added the crossing of t to the total
\* record of L and, with count_first_crossing, t to the counted-trail set
\* of L; it has added it to no class sub-record, has credited nothing on
\* the lines after L, and has published no count records.
C29_PartialUpdate ==
  [][(op' = "analyze" /\ raised' = "KeyError") =>
       \A L \in {FailingLine(result'.keys, result'.tested,
                             result'.trail_classes, _counted_trails_list)} :
         /\ L # 0
         /\ \E t \in credited'[L] \ DOMAIN result'.trail_classes :
              /\ cfg.count_first_crossing => t \in _counted_trails_list'[L]
              /\ \A f \in Buckets :
                   /\ _line_counts'[L][f] =
                        (IF cfg.accumulate THEN _line_counts[L][f] ELSE 0)
                          + BucketGain(L, f, credited'[L], result'.tested)
                   /\ ClassGap(_line_counts'[L], f) =
                        (IF cfg.accumulate THEN ClassGap(_line_counts[L], f)
                         ELSE 0)
                          + BucketGain(L, f, {t}, result'.tested)
         /\ \A j \in (L + 1)..NLines :
              /\ credited'[j] = {}
              /\ _line_counts'[j] =
                   IF cfg.accumulate THEN _line_counts[j] ELSE ZeroCounts
              /\ _counted_trails_list'[j] \subseteq _counted_trails_list[j]
         /\ ~result'.has_line_counts]_vars

\* the failing identity crosses both lines: credited on the first only
C29_FailedOnFirstLine ==
  /\ op = "analyze" /\ raised = "KeyError" /\ cfg.count_first_crossing
  /\ result.keys = {1}
  /\ CrossesLine(1, result.tested[1]) /\ CrossesLine(2, result.tested[1])
  /\ credited = <<{1}, {}>>
  /\ _counted_trails_list = <<{1}, {}>>
  /\ Crossings(_line_counts[1]) = 1 /\ _line_counts[1].for_class = NoMap
  /\ _line_counts[2] = ZeroCounts
  /\ ~result.has_line_counts

\* C30: with count_first_crossing, in a call of analyze that returns, an
\* identity whose tested segment crosses a line is credited on it when it
\* was not credited on that line since construction or reset, whatever
\* its credits on the other lines, and is not credited on it when it was
\* and has been in every frame since: an identity that crosses two lines,
\* in one frame or in two, is credited once on each.
C30_LinesApart ==
  [][(op' = "analyze" /\ cfg.count_first_crossing /\ raised' = "none") =>
       \A i \in 1..NLines : \A t \in result'.keys :
         /\ (hist[i][t] = "never" /\ CrossesLine(i, result'.tested[t]))
              => /\ t \in credited'[i]
                 /\ t \in _counted_trails_list'[i]
                 /\ Crossings(_line_counts'[i]) >= 1
         /\ hist[i][t] = "live" => t \notin credited'[i]]_vars

\* credited on the second line in an earlier frame, on the first in this one
C30_OneLineLater ==
  /\ op = "analyze" /\ cfg.count_first_crossing /\ raised = "none"
  /\ result.keys = {1}
  /\ CrossesLine(1, result.tested[1]) /\ CrossesLine(2, result.tested[1])
  /\ credited = <<{1}, {}>>
  /\ hist[1][1] = "live" /\ hist[2][1] = "live"
  /\ _counted_trails_list = <<{1}, {1}>>

====
